---- MODULE Spec2Model ----
(***************************************************************************)
(* A model of quecto.c, a single-buffer terminal text editor.              *)
(*                                                                         *)
(* The editor state is the global `struct editorConfig E`.  Every key      *)
(* event read by editorReadKey is one step: editorProcessKeypress runs to  *)
(* completion, including the command prompt and the command it executes.   *)
(*                                                                         *)
(* Bytes are the integers 0..255.  A row is modelled with its storage:     *)
(*   size   the erow's size field,                                         *)
(*   alloc  the number of bytes of the last malloc/realloc of chars,       *)
(*   chars  the bytes physically in the block (0-based index j is          *)
(*          chars[j+1]); a block that realloc shrank keeps the bytes past  *)
(*          alloc, and an access at an index >= alloc is undefined         *)
(*          behaviour.                                                     *)
(* Undefined behaviour is resolved by the input `ub` of a step: "inplace"  *)
(* (the access reads or writes the bytes physically there) or "crash"      *)
(* (the process dies).                                                     *)
(***************************************************************************)
EXTENDS Integers, Sequences, FiniteSets, TLC

VARIABLES
  E,      \* struct editorConfig, plus pc: "running", "exited", "crashed", "hung"
  disk,   \* the file named E.filename: whether it exists, and its bytes
  ev,     \* the input of the last step: the key, the command line, the I/O outcome
  nkeys   \* the number of key events handled so far

vars == <<E, disk, ev, nkeys>>

\* ---------------------------------------------------------------- bounds
\* the number of key events one run handles
MaxKeys == 4

\* ------------------------------------------------------- keys and bytes
NUL == 0
TAB == 9
LF == 10
CR == 13
ESC == 27
BACKSPACE == 127
ARROW_LEFT == 1000
ARROW_RIGHT == 1001
ARROW_UP == 1002
ARROW_DOWN == 1003
DEL_KEY == 1004
HOME_KEY == 1005
END_KEY == 1006
PAGE_UP == 1007
PAGE_DOWN == 1008

CTRL_KEY(k) == k % 32

CTRL_H == CTRL_KEY(104)
CTRL_Q == CTRL_KEY(113)
CTRL_S == CTRL_KEY(115)
CTRL_X == CTRL_KEY(120)

is_utf8_continuation(c) == (c \div 64) = 2

\* iscntrl in the "C" locale; a byte >= 128 is no control character
iscntrl(c) == c < 32 \/ c = 127

Max(a, b) == IF a >= b THEN a ELSE b
Min(a, b) == IF a <= b THEN a ELSE b

\* ------------------------------------------------------------------ rows
\* malloc(len + 1); memcpy; chars[len] = '\0'
NewRow(s) == [size |-> Len(s), alloc |-> Len(s) + 1, chars |-> s \o <<NUL>>]

\* the row's content: its first `size` bytes
Content(r) == SubSeq(r.chars, 1, r.size)

Contents(rows) == [i \in 1..Len(rows) |-> Content(rows[i])]

\* the byte at 0-based index j of the block
Peek(r, j) == r.chars[j + 1]

editorInsertRow(e, at, s) ==
  IF at < 0 \/ at > e.numrows THEN e
  ELSE [e EXCEPT
          !.row = SubSeq(e.row, 1, at) \o <<NewRow(s)>> \o SubSeq(e.row, at + 1, e.numrows),
          !.numrows = e.numrows + 1,
          !.dirty = TRUE]

\* a plausible slip: the row is freed but the rows after it are not moved down
editorDelRowNoMove(e, at) ==
  IF at < 0 \/ at >= e.numrows THEN e ELSE [e EXCEPT !.dirty = TRUE]

editorDelRow(e, at) ==
  IF at < 0 \/ at >= e.numrows THEN e
  ELSE [e EXCEPT
          !.row = SubSeq(e.row, 1, at) \o SubSeq(e.row, at + 2, e.numrows),
          !.numrows = e.numrows - 1,
          !.dirty = TRUE]

\* realloc(size + 2); memmove(&chars[at+1], &chars[at], size - at + 1); chars[at] = c
editorRowInsertChar(r, at0, c) ==
  LET at == IF at0 < 0 \/ at0 > r.size THEN r.size ELSE at0
      n  == Max(Len(r.chars), r.size + 2)
  IN [size  |-> r.size + 1,
      alloc |-> r.size + 2,
      chars |-> [i \in 1..n |->
                   LET j == i - 1 IN
                   IF j < at THEN r.chars[i]
                   ELSE IF j = at THEN c
                   ELSE IF j <= r.size + 1 THEN r.chars[i - 1]
                   ELSE r.chars[i]]]

\* realloc(size + len + 1); memcpy(&chars[size], s, len); chars[size] = '\0'
editorRowAppendString(r, s) ==
  LET len == Len(s)
      n   == Max(Len(r.chars), r.size + len + 1)
  IN [size  |-> r.size + len,
      alloc |-> r.size + len + 1,
      chars |-> [i \in 1..n |->
                   LET j == i - 1 IN
                   IF j < r.size THEN r.chars[i]
                   ELSE IF j < r.size + len THEN s[j - r.size + 1]
                   ELSE IF j = r.size + len THEN NUL
                   ELSE r.chars[i]]]

\* memmove with a negative length (a huge size_t) runs off the heap
RowDelBytesFaults(r, at, len) ==
  at >= 0 /\ at < r.size /\ r.size - at - len < 0

\* a plausible slip: the size is reduced but the tail is not moved down
editorRowDelBytesNoMove(r, at, len) ==
  IF at < 0 \/ at >= r.size THEN r ELSE [r EXCEPT !.size = r.size - len]

\* memmove(&chars[at], &chars[at+len], size - at - len); size -= len
editorRowDelBytes(r, at, len) ==
  IF at < 0 \/ at >= r.size THEN r
  ELSE [r EXCEPT
          !.size = r.size - len,
          !.chars = [i \in 1..Len(r.chars) |->
                       LET j == i - 1 IN
                       IF j >= at /\ j < r.size - len THEN r.chars[i + len]
                       ELSE r.chars[i]]]

\* --------------------------------------------------- editor operations
Crash(e) == [e EXCEPT !.pc = "crashed"]

\* E.row[cy], 0-based
RowAt(e, y) == e.row[y + 1]

editorInsertChar(e, c) ==
  LET e1 == IF e.cy = e.numrows THEN editorInsertRow(e, e.numrows, <<>>) ELSE e
  IN [e1 EXCEPT
        !.row[e.cy + 1] = editorRowInsertChar(RowAt(e1, e.cy), e.cx, c),
        !.cx = e.cx + 1,
        !.dirty = TRUE]

editorInsertNewline(e) ==
  IF e.cx = 0
    THEN [editorInsertRow(e, e.cy, <<>>) EXCEPT !.cy = e.cy + 1, !.cx = 0]
  ELSE IF RowAt(e, e.cy).size - e.cx < 0
    THEN Crash(e)   \* editorInsertRow with len = (size_t)(size - cx): malloc fails, memcpy faults
  ELSE
    LET r  == RowAt(e, e.cy)
        e1 == editorInsertRow(e, e.cy + 1, SubSeq(r.chars, e.cx + 1, r.size))
    IN [e1 EXCEPT
          !.row[e.cy + 1] = [r EXCEPT !.size = e.cx, !.chars[e.cx + 1] = NUL],
          !.cy = e.cy + 1,
          !.cx = 0]

\* a plausible slip: backspace deletes one byte, whatever the character
BackLenOneByte(r, cx, len) == len

\* the while loop of editorDelChar: the number of bytes to delete before cx
RECURSIVE BackLen(_, _, _)
BackLen(r, cx, len) ==
  IF cx - len > 0 /\ is_utf8_continuation(Peek(r, cx - len))
    THEN BackLen(r, cx, len + 1)
    ELSE len

\* the loop reads chars[cx - 1] first: past the allocation once cx > alloc
BackReadsPastAlloc(r, cx) == cx - 1 >= r.alloc

editorDelChar(e, ub) ==
  IF e.cy = e.numrows THEN e
  ELSE IF e.cx = 0 /\ e.cy = 0 THEN e
  ELSE IF e.cx > 0 THEN
    LET r   == RowAt(e, e.cy)
        len == BackLen(r, e.cx, 1)
    IN IF BackReadsPastAlloc(r, e.cx) /\ ub = "crash" THEN Crash(e)
       ELSE IF RowDelBytesFaults(r, e.cx - len, len) THEN Crash(e)
       ELSE [e EXCEPT
               !.row[e.cy + 1] = editorRowDelBytes(r, e.cx - len, len),
               !.dirty = IF e.cx - len < r.size THEN TRUE ELSE e.dirty,
               !.cx = e.cx - len]
  ELSE
    LET prev == RowAt(e, e.cy - 1)
        r    == RowAt(e, e.cy)
        e1   == [e EXCEPT
                   !.cx = prev.size,
                   !.row[e.cy] = editorRowAppendString(prev, Content(r)),
                   !.dirty = TRUE]
    IN [editorDelRow(e1, e.cy) EXCEPT !.cy = e.cy - 1]

\* the while loop of the DEL_KEY case: the number of bytes to delete at cx
RECURSIVE FwdLen(_, _, _)
FwdLen(r, cx, len) ==
  IF cx + len < r.size /\ is_utf8_continuation(Peek(r, cx + len))
    THEN FwdLen(r, cx, len + 1)
    ELSE len

\* case DEL_KEY of editorProcessKeypress
DelKey(e, ub) ==
  IF e.cy >= e.numrows THEN
    \* E.row[E.cy] is read one past the array: E.row is NULL while numrows = 0
    IF e.numrows = 0 \/ ub = "crash" THEN Crash(e) ELSE e
  ELSE
    LET r == RowAt(e, e.cy) IN
    IF e.cx < r.size THEN
      [e EXCEPT
         !.row[e.cy + 1] = editorRowDelBytes(r, e.cx, FwdLen(r, e.cx, 1)),
         !.dirty = TRUE]
    ELSE IF e.cy < e.numrows - 1 THEN
      LET e1 == [e EXCEPT
                   !.cx = r.size,
                   !.row[e.cy + 1] = editorRowAppendString(r, Content(RowAt(e, e.cy + 1))),
                   !.dirty = TRUE]
      IN editorDelRow(e1, e.cy + 1)
    ELSE e

\* case ARROW_RIGHT: step over the continuation bytes that follow
RECURSIVE SkipCont(_, _)
SkipCont(r, cx) ==
  IF cx < r.size /\ is_utf8_continuation(Peek(r, cx)) THEN SkipCont(r, cx + 1) ELSE cx

ArrowRight(e) ==
  IF e.cy < e.numrows /\ e.cx < RowAt(e, e.cy).size
    THEN [e EXCEPT !.cx = SkipCont(RowAt(e, e.cy), e.cx + 1)]
  ELSE IF e.cy < e.numrows - 1 THEN [e EXCEPT !.cy = e.cy + 1, !.cx = 0]
  ELSE e

\* case PAGE_UP / PAGE_DOWN: screenrows single steps
RECURSIVE Page(_, _, _)
Page(e, c, times) ==
  IF times <= 0 THEN e
  ELSE IF c = PAGE_UP
    THEN Page(IF e.cy # 0 THEN [e EXCEPT !.cy = e.cy - 1] ELSE e, c, times - 1)
    ELSE Page(IF e.cy < e.numrows - 1 THEN [e EXCEPT !.cy = e.cy + 1] ELSE e, c, times - 1)

\* the tail of editorProcessKeypress
CursorClamp(e) ==
  LET rowlen == IF e.cy < e.numrows THEN RowAt(e, e.cy).size ELSE 0
  IN IF e.cx > rowlen THEN [e EXCEPT !.cx = rowlen] ELSE e


\* --------------------------------------------------------------- display
TAB_STOP == 4

\* a plausible slip: a tab adds the columns already used in its tab stop
RxAfterTabShort(c, rx) ==
  IF c = TAB THEN rx + (rx % TAB_STOP)
  ELSE IF c \div 16 = 14 \/ c \div 8 = 30 THEN rx + 2
  ELSE rx + 1

\* the render column after the character that starts with byte c at column rx
RxAfter(c, rx) ==
  IF c = TAB THEN rx + (TAB_STOP - (rx % TAB_STOP))
  ELSE IF c \div 16 = 14 \/ c \div 8 = 30 THEN rx + 2
  ELSE rx + 1

\* the number of bytes of the character that starts with byte c
CharBytes(c) ==
  IF c = TAB THEN 1
  ELSE IF c \div 32 = 6 THEN 2
  ELSE IF c \div 16 = 14 THEN 3
  ELSE IF c \div 8 = 30 THEN 4
  ELSE 1

\* the for loop of editorRowCxToRx from byte j at render column rx
RECURSIVE CxToRxFrom(_, _, _, _)
CxToRxFrom(r, cx, j, rx) ==
  IF j >= cx THEN rx
  ELSE LET c   == IF j < Len(r.chars) THEN Peek(r, j) ELSE NUL
           j2  == j + CharBytes(c)
           rx2 == RxAfter(c, rx)
       IN IF j2 > r.size THEN rx2 ELSE CxToRxFrom(r, cx, j2, rx2)

editorRowCxToRx(r, cx) == CxToRxFrom(r, cx, 0, 0)

\* main's loop before editorRefreshScreen: rx, then the scroll to the cursor
editorScroll(e) ==
  LET rx      == IF e.cy < e.numrows THEN editorRowCxToRx(RowAt(e, e.cy), e.cx) ELSE 0
      rowoff1 == IF e.cy < e.rowoff THEN e.cy ELSE e.rowoff
      rowoff2 == IF e.cy >= rowoff1 + e.screenrows THEN e.cy - e.screenrows + 1 ELSE rowoff1
      coloff1 == IF rx < e.coloff THEN rx ELSE e.coloff
      coloff2 == IF rx >= coloff1 + e.screencols THEN rx - e.screencols + 1 ELSE coloff1
  IN [e EXCEPT !.rx = rx, !.rowoff = rowoff2, !.coloff = coloff2]

\* editorRefreshScreen: the cell of the final cursor-position sequence ESC [ row ; col H
CursorCell(e) == [row |-> (e.cy - e.rowoff) + 1, col |-> (e.cx - e.coloff) + 2]

\* one pass of main's loop up to the read of the next key
RenderPass(e) == IF e.pc = "running" THEN editorScroll(e) ELSE e

\* -------------------------------------------------------------- file I/O
\* a file: whether it exists (fopen "r" succeeds), and its bytes
File(bytes) == [exists |-> TRUE, bytes |-> bytes]
NoFile == [exists |-> FALSE, bytes |-> <<>>]
NoName == "null"

StatusMsg(text, n) == [text |-> text, n |-> n]
NoMsg == StatusMsg("", 0)

RECURSIVE Flatten(_)
Flatten(ss) == IF ss = <<>> THEN <<>> ELSE Head(ss) \o Flatten(Tail(ss))

\* every row's first `size` bytes followed by '\n'
editorRowsToString(e) ==
  Flatten([j \in 1..e.numrows |-> Content(e.row[j]) \o <<LF>>])

\* getline: the bytes up to and including the first '\n', or all that is left
LineEnd(bytes) ==
  IF \E i \in 1..Len(bytes) : bytes[i] = LF
    THEN CHOOSE i \in 1..Len(bytes) : bytes[i] = LF /\ \A k \in 1..(i - 1) : bytes[k] # LF
    ELSE Len(bytes)

\* while (linelen > 0 && (line[linelen-1] == '\n' || line[linelen-1] == '\r')) linelen--
RECURSIVE StripEol(_)
StripEol(line) ==
  IF Len(line) > 0 /\ line[Len(line)] \in {LF, CR}
    THEN StripEol(SubSeq(line, 1, Len(line) - 1))
    ELSE line

\* the rows editorOpen's getline loop inserts, in order
RECURSIVE FileLines(_)
FileLines(bytes) ==
  IF bytes = <<>> THEN <<>>
  ELSE LET n == LineEnd(bytes)
       IN <<StripEol(SubSeq(bytes, 1, n))>> \o FileLines(SubSeq(bytes, n + 1, Len(bytes)))

RECURSIVE InsertRows(_, _)
InsertRows(e, lines) ==
  IF lines = <<>> THEN e
  ELSE InsertRows(editorInsertRow(e, e.numrows, Head(lines)), Tail(lines))

\* file: the bytes of the file named on the command line, NoFile when fopen fails
editorOpen(e, file) ==
  LET e1 == [e EXCEPT !.filename = "f"]
  IN IF ~file.exists THEN e1
     ELSE [InsertRows(e1, FileLines(file.bytes)) EXCEPT !.dirty = FALSE]

\* what fopen/ftruncate/fwrite/fclose do to one save
IO == {"ok", "open_fail", "truncate_fail", "write_fail", "flush_fail"}

Zeros(n) == [i \in 1..n |-> NUL]

\* fwrite(buf, len, 1, fp) == 1: a zero-sized element writes no element
FwriteOk(len, io) == len > 0 /\ io \in {"ok", "flush_fail"}

SaveOk(e, io) ==
  e.filename # NoName /\ io \notin {"open_fail", "truncate_fail"}
    /\ FwriteOk(Len(editorRowsToString(e)), io)

editorSave(e, io) ==
  IF e.filename = NoName THEN e
  ELSE IF SaveOk(e, io)
    THEN [e EXCEPT !.dirty = FALSE, !.statusmsg = StatusMsg("Saved to %s", 0)]
    ELSE [e EXCEPT !.statusmsg = StatusMsg("Error: I/O error", 0)]

\* the file after editorSave: fopen "w" empties it, ftruncate sizes it,
\* the write (at fwrite or at fclose's flush) fills it
DiskAfterSave(e, d, io) ==
  IF e.filename = NoName \/ io = "open_fail" THEN d
  ELSE IF io = "truncate_fail" THEN File(<<>>)
  ELSE IF io = "ok" THEN File(editorRowsToString(e))
  ELSE File(Zeros(Len(editorRowsToString(e))))

\* ------------------------------------------------------------------ regex
\* The POSIX extended regular expressions modelled: a sequence of literal
\* bytes, each optionally followed by + or *.  An unmatched ( does not compile.
PLUS == 43
STAR == 42
LPAREN == 40
SLASH == 47

RECURSIVE Items(_)
Items(p) ==
  IF p = <<>> THEN <<>>
  ELSE IF Len(p) >= 2 /\ p[2] \in {PLUS, STAR}
    THEN <<[ch |-> p[1], min |-> IF p[2] = PLUS THEN 1 ELSE 0, many |-> TRUE]>>
           \o Items(SubSeq(p, 3, Len(p)))
    ELSE <<[ch |-> p[1], min |-> 1, many |-> FALSE]>> \o Items(Tail(p))

regcomp(p) ==
  IF \E i \in 1..Len(p) : p[i] = LPAREN
    THEN [ok |-> FALSE, items |-> <<>>]
    ELSE [ok |-> TRUE, items |-> Items(p)]

\* the number of consecutive bytes ch of s from 0-based position pos
RECURSIVE RunLen(_, _, _)
RunLen(s, pos, ch) ==
  IF pos < Len(s) /\ s[pos + 1] = ch THEN 1 + RunLen(s, pos + 1, ch) ELSE 0

\* the positions where a match of items[k..] that starts at pos can end
RECURSIVE MatchEnds(_, _, _, _)
MatchEnds(items, k, s, pos) ==
  IF k > Len(items) THEN {pos}
  ELSE LET it  == items[k]
           run == RunLen(s, pos, it.ch)
           top == IF it.many THEN run ELSE Min(run, 1)
       IN UNION {MatchEnds(items, k + 1, s, pos + n) : n \in it.min..top}

SetMax(S) == CHOOSE x \in S : \A y \in S : y <= x
SetMin(S) == CHOOSE x \in S : \A y \in S : x <= y

\* regexec: the leftmost match, and the longest of those
regexec(items, s) ==
  LET starts == {so \in 0..Len(s) : MatchEnds(items, 1, s, so) # {}}
  IN IF starts = {} THEN [found |-> FALSE, rm_so |-> 0, rm_eo |-> 0]
     ELSE LET so == SetMin(starts)
          IN [found |-> TRUE, rm_so |-> so, rm_eo |-> SetMax(MatchEnds(items, 1, s, so))]

\* 0-based index of the first NUL at or after offset in the block; -1 if none
NulIndex(r, offset) ==
  LET js == {j \in offset..(Len(r.chars) - 1) : Peek(r, j) = NUL}
  IN IF js = {} THEN 0 - 1 ELSE SetMin(js)

\* the C string at chars + offset
CString(r, offset) == SubSeq(r.chars, offset + 1, NulIndex(r, offset))

\* realloc, memmove and memcpy of one replacement of [start, end) by repl
Substitute(r, start, end, repl) ==
  LET len_repl == Len(repl)
      len_diff == len_repl - (end - start)
      n        == Max(Len(r.chars), r.size + len_diff + 1)
  IN [size  |-> r.size + len_diff,
      alloc |-> r.size + len_diff + 1,
      chars |-> [i \in 1..n |->
                   LET j == i - 1 IN
                   IF j >= start /\ j < start + len_repl THEN repl[j - start + 1]
                   ELSE IF j >= end + len_diff /\ j <= r.size + len_diff THEN r.chars[i - len_diff]
                   ELSE r.chars[i]]]

\* the while loop of editorRegexReplace on one row.
\* pc: "running" (the loop ended), "crashed", "hung" (the loop never ends),
\* "corrupt" (realloc(chars, 0) freed the block: chars is NULL, size is -1)
RECURSIVE ReplaceInRow(_, _, _, _, _, _, _)
ReplaceInRow(r, items, repl, global, offset, count, ub) ==
  LET done == [row |-> r, count |-> count, pc |-> "running"]
      dead == [row |-> r, count |-> count, pc |-> "crashed"]
      nul  == NulIndex(r, offset)
  IN
  IF offset >= Len(r.chars) \/ nul < 0 THEN dead
  ELSE IF nul >= r.alloc /\ ub = "crash" THEN dead
  ELSE
    LET m == regexec(items, CString(r, offset)) IN
    IF ~m.found THEN done
    ELSE
      LET start    == offset + m.rm_so
          end      == offset + m.rm_eo
          len_diff == Len(repl) - (end - start)
          newalloc == r.size + len_diff + 1
          tail     == r.size - end + 1
          r2       == Substitute(r, start, end, repl)
      IN
      IF newalloc < 0 \/ tail < 0 THEN dead
      ELSE IF newalloc = 0 THEN
        IF global THEN dead
        ELSE [row |-> [size |-> 0 - 1, alloc |-> 0, chars |-> <<>>],
              count |-> count + 1, pc |-> "corrupt"]
      ELSE IF len_diff < 0 /\ tail > 0 /\ ub = "crash" THEN dead
      ELSE IF ~global THEN [row |-> r2, count |-> count + 1, pc |-> "running"]
      ELSE IF end = start THEN [row |-> r2, count |-> count + 1, pc |-> "hung"]
      ELSE ReplaceInRow(r2, items, repl, global, start + Len(repl), count + 1, ub)

\* the for loop of editorRegexReplace, from row i (0-based)
RECURSIVE ReplaceRows(_, _, _, _, _, _, _)
ReplaceRows(e, items, repl, global, i, count, ub) ==
  IF i >= e.numrows
    THEN [e EXCEPT !.statusmsg = StatusMsg("Replaced %d occurrences", count)]
  ELSE
    LET res == ReplaceInRow(RowAt(e, i), items, repl, global, 0, count, ub)
        e1  == [e EXCEPT !.row[i + 1] = res.row,
                         !.dirty = IF res.count > count THEN TRUE ELSE e.dirty]
    IN IF res.pc # "running" THEN [e1 EXCEPT !.pc = res.pc]
       ELSE IF ~global /\ res.count > 0
         THEN [e1 EXCEPT !.statusmsg = StatusMsg("Replaced %d occurrences", res.count)]
       ELSE ReplaceRows(e1, items, repl, global, i + 1, res.count, ub)

editorRegexReplace(e, pattern, repl, global, ub) ==
  LET re == regcomp(pattern) IN
  IF ~re.ok THEN [e EXCEPT !.statusmsg = StatusMsg("Error: Invalid Regex", 0)]
  ELSE ReplaceRows(e, re.items, repl, global, 0, 0, ub)


\* -------------------------------------------------------------- commands
Ord(ch) ==
  CASE ch = "a" -> 97 [] ch = "b" -> 98 [] ch = "g" -> 103 [] ch = "q" -> 113
    [] ch = "r" -> 114 [] ch = "w" -> 119 [] ch = "x" -> 120 [] ch = "!" -> 33
    [] ch = "/" -> SLASH [] ch = "+" -> PLUS [] ch = "*" -> STAR [] ch = "(" -> LPAREN
    [] ch = "2" -> 50 [] ch = "9" -> 57

\* the bytes of a command line, written one character per element
Str(t) == [i \in 1..Len(t) |-> Ord(t[i])]

\* strchr(s, c) as a 0-based index, -1 for NULL
strchr(s, c) ==
  IF \E i \in 1..Len(s) : s[i] = c
    THEN SetMin({i \in 1..Len(s) : s[i] = c}) - 1
    ELSE 0 - 1

editorExit(e) == [e EXCEPT !.pc = "exited"]

\* the r/ branch of editorProcessCommand: the command line cut at its '/'
\* has_repl: a '/' ends the pattern; g: a '/' ends the replacement and a g follows
ParseSubstitute(cmd) ==
  LET rest     == SubSeq(cmd, 3, Len(cmd))
      end_pat  == strchr(rest, SLASH)
      after    == SubSeq(rest, end_pat + 2, Len(rest))
      end_repl == strchr(after, SLASH)
  IN IF end_pat < 0
       THEN [has_repl |-> FALSE, pat |-> rest, repl |-> <<>>, g |-> FALSE]
       ELSE [has_repl |-> TRUE,
             pat  |-> SubSeq(rest, 1, end_pat),
             repl |-> IF end_repl < 0 THEN after ELSE SubSeq(after, 1, end_repl),
             g    |-> end_repl >= 0
                        /\ strchr(SubSeq(after, end_repl + 2, Len(after)), Ord("g")) >= 0]

\* a plausible slip: a command without a replacement substitutes the empty string
SubstituteCommandNoReplCheck(e, cmd, ub) ==
  LET p == ParseSubstitute(cmd)
  IN editorRegexReplace(e, p.pat, p.repl, p.g, ub)

\* if (pat && repl) editorRegexReplace(pat, repl, g)
SubstituteCommand(e, cmd, ub) ==
  LET p == ParseSubstitute(cmd)
  IN IF p.has_repl THEN editorRegexReplace(e, p.pat, p.repl, p.g, ub) ELSE e

IsSubstitute(cmd) == Len(cmd) >= 2 /\ cmd[1] = Ord("r") /\ cmd[2] = SLASH

editorProcessCommand(e, cmd, io, ub) ==
  IF cmd = <<>> THEN e
  ELSE IF cmd = Str(<<"q">>) THEN
    IF e.dirty THEN [e EXCEPT !.statusmsg = StatusMsg("Unsaved changes!", 0)]
    ELSE editorExit(e)
  ELSE IF cmd = Str(<<"q", "!">>) THEN editorExit(e)
  ELSE IF cmd = Str(<<"w">>) THEN editorSave(e, io)
  ELSE IF cmd = Str(<<"w", "q">>) THEN editorExit(editorSave(e, io))
  ELSE IF IsSubstitute(cmd) THEN SubstituteCommand(e, cmd, ub)
  ELSE e

\* whether the command line makes editorProcessCommand call editorSave
CommandSaves(cmd) == cmd \in {Str(<<"w">>), Str(<<"w", "q">>)}

\* editorPrompt returns: the status message is emptied; line is <<>> for NULL (Escape)
editorPrompt(e) == [e EXCEPT !.statusmsg = NoMsg]

\* ------------------------------------------------------------ key events
editorProcessKeypress(e, c, line, io, ub) ==
  IF c = CTRL_Q THEN
    IF e.dirty
      THEN [e EXCEPT !.statusmsg = StatusMsg("Unsaved changes! Press Ctrl+Q again.", 0),
                     !.dirty = FALSE]
      ELSE editorExit(e)
  ELSE IF c = CTRL_S THEN editorSave(e, io)
  ELSE IF c = CTRL_X THEN
    IF line = <<>> THEN editorPrompt(e)
    ELSE editorProcessCommand(editorPrompt(e), line, io, ub)
  ELSE
    LET e1 ==
      IF c = CR THEN editorInsertNewline(e)
      ELSE IF c = HOME_KEY THEN [e EXCEPT !.cx = 0]
      ELSE IF c = END_KEY THEN
        IF e.cy < e.numrows THEN [e EXCEPT !.cx = RowAt(e, e.cy).size] ELSE e
      ELSE IF c = DEL_KEY THEN DelKey(e, ub)
      ELSE IF c \in {BACKSPACE, CTRL_H} THEN editorDelChar(e, ub)
      ELSE IF c = ARROW_UP THEN IF e.cy # 0 THEN [e EXCEPT !.cy = e.cy - 1] ELSE e
      ELSE IF c = ARROW_DOWN THEN IF e.cy < e.numrows - 1 THEN [e EXCEPT !.cy = e.cy + 1] ELSE e
      ELSE IF c = ARROW_LEFT THEN IF e.cx # 0 THEN [e EXCEPT !.cx = e.cx - 1] ELSE e
      ELSE IF c = ARROW_RIGHT THEN ArrowRight(e)
      ELSE IF c \in {PAGE_UP, PAGE_DOWN} THEN Page(e, c, e.screenrows)
      ELSE IF c = ESC THEN e
      ELSE IF ~iscntrl(c) \/ c = TAB THEN editorInsertChar(e, c)
      ELSE e
    IN IF e1.pc = "running" THEN CursorClamp(e1) ELSE e1

\* the indices y of the rows E.row[y] that the switch of editorProcessKeypress
\* dereferences for key c (a typed byte at cy = numrows appends the row first)
RowsDereferenced(e, c) ==
  IF c = CR THEN IF e.cx = 0 THEN {} ELSE {e.cy}
  ELSE IF c = END_KEY THEN IF e.cy < e.numrows THEN {e.cy} ELSE {}
  ELSE IF c = DEL_KEY THEN
    {e.cy} \cup (IF e.cy < e.numrows /\ e.cx >= RowAt(e, e.cy).size /\ e.cy < e.numrows - 1
                   THEN {e.cy + 1} ELSE {})
  ELSE IF c \in {BACKSPACE, CTRL_H} THEN
    IF e.cy = e.numrows \/ (e.cx = 0 /\ e.cy = 0) THEN {}
    ELSE IF e.cx > 0 THEN {e.cy} ELSE {e.cy - 1, e.cy}
  ELSE IF c = ARROW_RIGHT THEN IF e.cy < e.numrows THEN {e.cy} ELSE {}
  ELSE IF c \in {CTRL_Q, CTRL_S, CTRL_X, HOME_KEY, ARROW_UP, ARROW_DOWN, ARROW_LEFT,
                 PAGE_UP, PAGE_DOWN, ESC} THEN {}
  ELSE IF ~iscntrl(c) \/ c = TAB THEN IF e.cy = e.numrows THEN {} ELSE {e.cy}
  ELSE {}

\* ------------------------------------------------------------- start-up
\* terminal heights and widths reported by getWindowSize
WinRows == {3}
WinCols == {80}

initEditor(h, w) ==
  [cx |-> 0, cy |-> 0, rx |-> 0, rowoff |-> 0, coloff |-> 0,
   numrows |-> 0, row |-> <<>>, dirty |-> FALSE,
   filename |-> NoName, statusmsg |-> NoMsg,
   screenrows |-> h - 1, screencols |-> w, pc |-> "running"]

NoEvent == [key |-> NUL, line |-> <<>>, io |-> "none"]

\* main up to the first read of a key: without an argument, or with the name of a
\* file of `files` or of a file that cannot be opened, on a terminal of a height
\* of `heights` and a width of `widths`
StartOn(files, heights, widths) ==
  /\ \E h \in heights, w \in widths :
       \/ E = RenderPass(initEditor(h, w)) /\ disk = NoFile
       \/ \E f \in {File(b) : b \in files} \cup {NoFile} :
            E = RenderPass(editorOpen(initEditor(h, w), f)) /\ disk = f
  /\ ev = NoEvent
  /\ nkeys = 0

Start(files) == StartOn(files, WinRows, WinCols)

\* ---------------------------------------------------------------- steps
UB == {"inplace", "crash"}

\* one iteration of main's loop, from the read of the key c to the next read
Step(c, line, io, ub) ==
  /\ E.pc = "running"
  /\ nkeys < MaxKeys
  /\ E' = RenderPass(editorProcessKeypress(E, c, line, io, ub))
  /\ disk' = IF c = CTRL_S \/ (c = CTRL_X /\ CommandSaves(line))
               THEN DiskAfterSave(E, disk, io) ELSE disk
  /\ ev' = [key |-> c, line |-> line, io |-> io]
  /\ nkeys' = nkeys + 1

TypeByte(bytes) == \E c \in bytes : Step(c, <<>>, "none", "inplace")
Enter == Step(CR, <<>>, "none", "inplace")
Backspace == \E c \in {BACKSPACE, CTRL_H}, ub \in UB : Step(c, <<>>, "none", ub)
Delete == \E ub \in UB : Step(DEL_KEY, <<>>, "none", ub)
Arrow == \E c \in {ARROW_LEFT, ARROW_RIGHT, ARROW_UP, ARROW_DOWN} : Step(c, <<>>, "none", "inplace")
HomeEnd == \E c \in {HOME_KEY, END_KEY} : Step(c, <<>>, "none", "inplace")
PageKey == \E c \in {PAGE_UP, PAGE_DOWN} : Step(c, <<>>, "none", "inplace")
Escape == Step(ESC, <<>>, "none", "inplace")
CtrlQ == Step(CTRL_Q, <<>>, "none", "inplace")
CtrlS == \E io \in IO : Step(CTRL_S, <<>>, io, "inplace")
PromptEscape == Step(CTRL_X, <<>>, "none", "inplace")
SaveCommand(lines) ==
  \E line \in lines, io \in IO : CommandSaves(line) /\ Step(CTRL_X, line, io, "inplace")
Command(lines) ==
  \E line \in lines, ub \in UB : ~CommandSaves(line) /\ Step(CTRL_X, line, "none", ub)

\* ------------------------------------------------- editing and navigation
\* the bytes the keyboard sends in the default case: a, and a continuation byte
EditBytes == {97, 169}

\* an empty file; one 2-byte character; a carriage return inside a line; two lines
EditFiles ==
  { <<>>,
    <<195, 169, LF>>,
    <<CR, 97, LF>>,
    <<97, LF, 97, CR, LF>> }

NextEdit ==
  \/ TypeByte(EditBytes) \/ Enter \/ Backspace \/ Delete \/ Arrow \/ HomeEnd \/ PageKey
  \/ Escape

SpecEdit == Start(EditFiles) /\ [][NextEdit]_vars

\* ------------------------------------------------------- the command line
CmdFiles ==
  { Str(<<"a", "b">>) \o <<LF>>,
    Str(<<"a", "a">>) \o <<LF>> \o Str(<<"b", "a">>) \o <<LF>> }

CmdLines ==
  { Str(<<"2">>), Str(<<"9", "9">>), Str(<<"x">>),
    Str(<<"r", "/", "a">>),
    Str(<<"r", "/", "a", "/", "b">>),
    Str(<<"r", "/", "a", "/", "b", "/">>),
    Str(<<"r", "/", "a", "+", "/", "b", "/", "g">>),
    Str(<<"r", "/", "a", "/", "/">>),
    Str(<<"r", "/", "b", "/", "a", "a", "/">>),
    Str(<<"r", "/", "(", "/", "b", "/">>),
    Str(<<"r", "/", "a", "*", "/", "b", "/", "g">>),
    Str(<<"r", "/", "a", "/", "a", "a", "/", "g">>) }

NextCmd ==
  \/ TypeByte({97}) \/ Enter \/ Backspace \/ Arrow \/ HomeEnd
  \/ PromptEscape \/ Command(CmdLines)

SpecCmd == Start(CmdFiles) /\ [][NextCmd]_vars

\* ----------------------------------------------------- saving and leaving
QuitSaveLines == { Str(<<"q">>), Str(<<"q", "!">>), Str(<<"w">>), Str(<<"w", "q">>) }

NextFile ==
  \/ TypeByte({97}) \/ Enter \/ Backspace
  \/ CtrlQ \/ CtrlS \/ SaveCommand(QuitSaveLines) \/ Command(QuitSaveLines)

SpecFile == Start({<<>>, <<97, LF>>}) /\ [][NextFile]_vars

\* ------------------------------------------------- multi-byte characters
\* the 3-byte character U+20AC
Euro == <<226, 130, 172>>

\* three 3-byte characters; a 3-byte character between two ASCII bytes
Utf8Files ==
  { Euro \o Euro \o Euro \o <<LF>>,
    <<97>> \o Euro \o <<98, LF>> }

NextUtf8 == TypeByte({97}) \/ Backspace \/ Arrow \/ HomeEnd

SpecUtf8 == Start(Utf8Files) /\ [][NextUtf8]_vars

\* ---------------------------------------------------- scrolling and display
\* terminals of one, two and four lines, three and eighty columns wide
ViewRows == {1, 2, 4}
ViewCols == {3, 80}

\* a tab before a letter; three lines; one 2-byte character
ViewFiles ==
  { <<TAB, 97, LF>>,
    <<97, LF, 97, LF, 97, LF>>,
    <<195, 169, LF>> }

NextView ==
  \/ TypeByte({97, TAB}) \/ Enter \/ Backspace \/ Arrow \/ HomeEnd \/ PageKey

SpecView == StartOn(ViewFiles, ViewRows, ViewCols) /\ [][NextView]_vars

\* ------------------------------------------------------- the whole editor
Next ==
  \/ TypeByte(EditBytes) \/ Enter \/ Backspace \/ Delete \/ Arrow \/ HomeEnd \/ PageKey
  \/ Escape \/ CtrlQ \/ CtrlS \/ PromptEscape
  \/ SaveCommand(QuitSaveLines) \/ Command(CmdLines \cup QuitSaveLines)

Spec == Start(EditFiles \cup CmdFiles) /\ [][Next]_vars


\* =================================================================== claims
RowLen(e) == IF e.cy < e.numrows THEN RowAt(e, e.cy).size ELSE 0

\* C1: after every processed key event (a Ctrl-X command line that runs a
\* substitution included) the cursor offset cx is at most the length of row cy,
\* and is 0 when cy = numrows.
C1_CursorWithinRow == E.pc = "running" => E.cx <= RowLen(E)

\* well-formed UTF-8: 1-byte characters, and lead bytes followed by their
\* continuation bytes
RECURSIVE WellFormedUtf8(_)
WellFormedUtf8(s) ==
  IF s = <<>> THEN TRUE
  ELSE LET c == s[1]
           n == IF c < 128 THEN 1
                ELSE IF c >= 194 /\ c < 224 THEN 2
                ELSE IF c >= 224 /\ c < 240 THEN 3
                ELSE IF c >= 240 /\ c < 245 THEN 4
                ELSE 0
       IN /\ n > 0
          /\ Len(s) >= n
          /\ \A k \in 2..n : is_utf8_continuation(s[k])
          /\ WellFormedUtf8(SubSeq(s, n + 1, Len(s)))

OnCharBoundary(e) ==
  \/ e.cx = 0
  \/ e.cy < e.numrows /\ e.cx = RowAt(e, e.cy).size
  \/ e.cy < e.numrows /\ e.cx < RowAt(e, e.cy).size
       /\ ~is_utf8_continuation(Peek(RowAt(e, e.cy), e.cx))

\* C2: while every row is well-formed UTF-8, after every navigation key and every
\* edit the cursor offset is a character boundary: 0, the row length, or the
\* index of a byte that is no continuation byte.
C2_CursorOnCharBoundary ==
  (E.pc = "running" /\ \A i \in 1..E.numrows : WellFormedUtf8(Content(E.row[i])))
    => OnCharBoundary(E)

\* the step taken called editorSave
SaveAttempt == ev'.key = CTRL_S \/ (ev'.key = CTRL_X /\ CommandSaves(ev'.line))

\* C3: the dirty flag, once set, becomes clear only through a successful save
\* (a load happens only at start-up); no other key or command clears it.
C3_DirtyClearedOnlyBySave ==
  [][(E.dirty /\ ~E'.dirty) => (SaveAttempt /\ SaveOk(E, ev'.io))]_vars

IsNumber(line) == line # <<>> /\ \A i \in 1..Len(line) : line[i] \in 48..57

RECURSIVE Atoi(_)
Atoi(line) ==
  IF line = <<>> THEN 0 ELSE 10 * Atoi(SubSeq(line, 1, Len(line) - 1)) + (line[Len(line)] - 48)

\* C4: a command line that is a bare integer N leaves the cursor on row index
\* min(max(N, 1), numrows) - 1.
C4_LineJump ==
  (E.pc = "running" /\ ev.key = CTRL_X /\ IsNumber(ev.line) /\ E.numrows >= 1)
    => E.cy = Min(Max(Atoi(ev.line), 1), E.numrows) - 1

\* the command line r/<pattern with no '/' after it
LacksReplacement(line) == IsSubstitute(line) /\ ~ParseSubstitute(line).has_repl

\* the command line r/<pattern>/<replacement with no '/' after it
LacksClosingDelimiter(line) ==
  /\ IsSubstitute(line)
  /\ ParseSubstitute(line).has_repl
  /\ LET rest == SubSeq(line, 3, Len(line))
     IN strchr(SubSeq(rest, strchr(rest, SLASH) + 2, Len(rest)), SLASH) < 0

\* C5 (as amended): a substitute command with no '/' after the pattern performs no
\* substitution: the editor is left as the prompt returned it, with rows, cursor
\* and dirty flag unchanged and no status message.
C5_NoReplacementNoSubstitution ==
  [][(ev'.key = CTRL_X /\ LacksReplacement(ev'.line)) => E' = editorPrompt(E)]_vars

\* C5 witness: r/a has just been run on a buffer with a row that holds an a.
C5_Witness ==
  /\ E.pc = "running" /\ ev.key = CTRL_X /\ ev.line = Str(<<"r", "/", "a">>)
  /\ \E i \in 1..E.numrows : \E k \in 1..E.row[i].size : E.row[i].chars[k] = 97

\* C5 (as claimed): a substitute command that lacks the replacement or the closing
\* delimiter after it leaves rows, dirty flag and status message unchanged.
C5_UnclosedSubstituteIsNoOp ==
  [][(ev'.key = CTRL_X /\ (LacksReplacement(ev'.line) \/ LacksClosingDelimiter(ev'.line)))
       => (E'.row = E.row /\ E'.dirty = E.dirty
             /\ E'.statusmsg = editorPrompt(E).statusmsg)]_vars


\* substitution as the claim words it, on a row's content: each successive
\* leftmost match found after the previous replacement becomes repl
RECURSIVE RefReplaceInRow(_, _, _, _, _, _)
RefReplaceInRow(s, items, repl, global, offset, count) ==
  LET m == regexec(items, SubSeq(s, offset + 1, Len(s))) IN
  IF ~m.found \/ m.rm_eo = m.rm_so THEN [content |-> s, count |-> count]
  ELSE LET start == offset + m.rm_so
           end   == offset + m.rm_eo
           s2    == SubSeq(s, 1, start) \o repl \o SubSeq(s, end + 1, Len(s))
       IN IF ~global THEN [content |-> s2, count |-> count + 1]
          ELSE RefReplaceInRow(s2, items, repl, global, start + Len(repl), count + 1)

\* every row in buffer order; without the g flag only the first row that matches
RECURSIVE RefReplaceRows(_, _, _, _, _, _)
RefReplaceRows(rows, items, repl, global, i, count) ==
  IF i > Len(rows) \/ (~global /\ count > 0) THEN [rows |-> rows, count |-> count]
  ELSE LET res == RefReplaceInRow(rows[i], items, repl, global, 0, count)
       IN RefReplaceRows([rows EXCEPT ![i] = res.content], items, repl, global, i + 1, res.count)

\* a pattern whose matches are never empty
MatchesNonEmpty(items) == \E k \in 1..Len(items) : items[k].min >= 1

\* C6: for a pattern whose matches are non-empty, a substitute command replaces, in
\* every row in buffer order, each successive leftmost match by the replacement
\* (only the first match of the first matching row without the g flag) and
\* reports the number of replacements.
C6_SubstituteReplacesMatches ==
  [][(/\ ev'.key = CTRL_X /\ IsSubstitute(ev'.line) /\ ParseSubstitute(ev'.line).has_repl
      /\ regcomp(ParseSubstitute(ev'.line).pat).ok
      /\ MatchesNonEmpty(regcomp(ParseSubstitute(ev'.line).pat).items)
      /\ E'.pc = "running")
       => LET p   == ParseSubstitute(ev'.line)
              ref == RefReplaceRows(Contents(E.row), regcomp(p.pat).items, p.repl, p.g, 1, 0)
          IN /\ Contents(E'.row) = ref.rows
             /\ E'.statusmsg = StatusMsg("Replaced %d occurrences", ref.count)]_vars

\* the bytes the default case of editorProcessKeypress inserts
InsertableBytes == {c \in {TAB, 97, 169, 195} : ~iscntrl(c) \/ c = TAB}

\* the editor after byte c is typed at offset at of row i (1-based) and the
\* Delete key is pressed with the cursor back at that offset
InsertThenDelete(e, i, at, c) ==
  LET e1 == editorInsertChar([e EXCEPT !.cy = i - 1, !.cx = at], c)
  IN DelKey([e1 EXCEPT !.cx = at], "inplace")

\* C7 (as amended): for every row and every offset 0..size whose byte is no
\* continuation byte (or that is the end of the row), inserting any insertable
\* byte there and deleting forward at the same offset restores the row's size
\* and content, and every other row.
C7_InsertThenDeleteRestores ==
  E.pc = "running" =>
    \A i \in 1..E.numrows : \A at \in 0..E.row[i].size : \A c \in InsertableBytes :
      (at = E.row[i].size \/ ~is_utf8_continuation(Peek(E.row[i], at)))
        => LET e2 == InsertThenDelete(E, i, at, c)
           IN /\ e2.pc = "running"
              /\ e2.row[i].size = E.row[i].size
              /\ Contents(e2.row) = Contents(E.row)

\* C7 witness: after Arrow-right or End over a 2-byte character, a typed byte,
\* Arrow-left and Delete, the row is the 2-byte character again.
C7_Witness ==
  /\ E.pc = "running" /\ ev.key = DEL_KEY /\ nkeys = 4 /\ E.dirty
  /\ E.cx = 2 /\ Contents(E.row) = <<(<<195, 169>>)>>

\* C7 (as claimed): in every state the editor reaches, inserting any insertable
\* byte at the cursor's offset and deleting forward at the same offset restores
\* the cursor row's size and content, and every other row.
C7_InsertThenDeleteRestoresAtCursor ==
  (E.pc = "running" /\ E.cy < E.numrows /\ E.cx <= RowLen(E)) =>
    \A c \in InsertableBytes :
      LET e2 == InsertThenDelete(E, E.cy + 1, E.cx, c)
      IN /\ e2.row[E.cy + 1].size = E.row[E.cy + 1].size
         /\ Contents(e2.row) = Contents(E.row)

\* C8: serializing the rows and loading the result into a fresh buffer yields the
\* same rows, for every buffer reached by edits from an empty or a loaded buffer.
C8_SerializeLoadRoundTrip ==
  E.pc = "running" => FileLines(editorRowsToString(E)) = Contents(E.row)

\* C9: every save attempt ends with a status message of the save; after a save
\* whose open, truncate and write all succeeded the dirty flag is clear, and a
\* failed save leaves the dirty flag and the rows as they were.
C9_SaveReportsAndTracksDirty ==
  [][SaveAttempt =>
       /\ E'.statusmsg.text \in {"Saved to %s", "Error: I/O error"}
       /\ (ev'.io = "ok" => ~E'.dirty)
       /\ (ev'.io \in {"open_fail", "truncate_fail", "write_fail"}
             => (E'.dirty = E.dirty /\ E'.row = E.row))]_vars

\* C10: whenever the editor has exited through wq, the dirty flag is clear and
\* the file holds the serialized buffer.
C10_WqExitsSaved ==
  (E.pc = "exited" /\ ev.key = CTRL_X /\ ev.line = Str(<<"w", "q">>))
    => (~E.dirty /\ disk = File(editorRowsToString(E)))


\* the cursor is just after a 3-byte UTF-8 sequence of its row
AfterThreeByteSequence(e) ==
  /\ e.cy < e.numrows
  /\ e.cx >= 3 /\ e.cx <= RowAt(e, e.cy).size
  /\ Peek(RowAt(e, e.cy), e.cx - 3) \div 16 = 14
  /\ is_utf8_continuation(Peek(RowAt(e, e.cy), e.cx - 2))
  /\ is_utf8_continuation(Peek(RowAt(e, e.cy), e.cx - 1))

\* a row of three 3-byte characters with the cursor at its end, after n backspaces
RECURSIVE BackspaceTimes(_, _)
BackspaceTimes(e, n) == IF n = 0 THEN e ELSE BackspaceTimes(editorDelChar(e, "crash"), n - 1)

ThreeEuros ==
  [editorOpen(initEditor(3, 80), File(Euro \o Euro \o Euro \o <<LF>>)) EXCEPT !.cx = 9]

AbcDef ==
  [editorInsertRow(editorInsertRow(initEditor(3, 80), 0, <<97, 98, 99>>), 1, <<100, 101, 102>>)
     EXCEPT !.cy = 1, !.cx = 0]

\* C12: Backspace at column 0 of a row k > 0 replaces rows k-1 and k by the single
\* row rows[k-1] ++ rows[k], decreases numrows by one, leaves all other rows
\* unchanged in order, and puts the cursor at row k-1, column = the original
\* length of rows[k-1]; ["abc","def"] with cursor (1,0) becomes ["abcdef"] with
\* cursor column 3.
C12_BackspaceMergesRows ==
  [][/\ (ev'.key \in {BACKSPACE, CTRL_H} /\ E.cx = 0 /\ E.cy > 0 /\ E.cy < E.numrows)
          => LET rows == Contents(E.row)
                 k    == E.cy
             IN /\ E'.pc = "running"
                /\ E'.numrows = E.numrows - 1
                /\ Contents(E'.row) =
                     SubSeq(rows, 1, k - 1) \o <<rows[k] \o rows[k + 1]>>
                       \o SubSeq(rows, k + 2, E.numrows)
                /\ E'.cy = k - 1
                /\ E'.cx = Len(rows[k])
     /\ LET e1 == editorDelChar(AbcDef, "crash") IN
          /\ e1.numrows = 1 /\ Contents(e1.row) = <<(<<97, 98, 99, 100, 101, 102>>)>>
          /\ e1.cy = 0 /\ e1.cx = 3]_vars

\* C12 witness: Arrow-down and Backspace have merged the two rows "a" and "a".
C12_Witness ==
  /\ E.pc = "running" /\ nkeys = 2 /\ ev.key \in {BACKSPACE, CTRL_H}
  /\ disk = File(<<97, LF, 97, CR, LF>>)
  /\ E.numrows = 1 /\ Contents(E.row) = <<(<<97, 97>>)>> /\ E.cy = 0 /\ E.cx = 1


\* C13: after every render pass of the main loop, rowoff <= cy <= rowoff +
\* screenrows - 1, for every terminal height the editor accepts at start-up and
\* after any sequence of key events.
C13_CursorRowInWindow ==
  E.pc = "running" => (E.rowoff <= E.cy /\ E.cy <= E.rowoff + E.screenrows - 1)


\* C14: in every rendered frame the cursor cell written to the display is the cell
\* of the cursor's render column: its screen column is (rx - coloff) past the
\* one-column gutter, where rx is editorRowCxToRx of the cursor row and cx, and
\* it lies within the screencols columns of the screen, on a text line.
C14_CursorCellAtRenderColumn ==
  E.pc = "running" =>
    LET cell == CursorCell(E)
        rx   == IF E.cy < E.numrows THEN editorRowCxToRx(RowAt(E, E.cy), E.cx) ELSE 0
    IN /\ cell.col = (rx - E.coloff) + 2
       /\ cell.col >= 2 /\ cell.col <= E.screencols
       /\ cell.row >= 1 /\ cell.row <= E.screenrows


\* a row of ASCII bytes and tabs only
AsciiAndTabs(r) == \A j \in 0..(r.size - 1) : Peek(r, j) < 128

\* the byte offset of 0..size whose render column is nearest to column rx
\* (the smallest such offset)
NearestOffset(r, rx) ==
  LET Dist(a) == IF editorRowCxToRx(r, a) >= rx THEN editorRowCxToRx(r, a) - rx
                 ELSE rx - editorRowCxToRx(r, a)
      best    == {a \in 0..r.size : \A b \in 0..r.size : Dist(a) <= Dist(b)}
  IN SetMin(best)

\* C15: for a row containing only ASCII bytes and tabs, editorRowCxToRx is
\* strictly increasing over the offsets 0..size, and mapping an offset to its
\* render column and back to the nearest offset returns the offset.
C15_CxToRxStrictlyIncreasing ==
  \A i \in 1..E.numrows :
    AsciiAndTabs(E.row[i]) =>
      /\ \A a \in 0..(E.row[i].size - 1) :
           editorRowCxToRx(E.row[i], a) < editorRowCxToRx(E.row[i], a + 1)
      /\ \A a \in 0..E.row[i].size :
           NearestOffset(E.row[i], editorRowCxToRx(E.row[i], a)) = a

\* C15 witness: End on the row of a tab and a letter has put the cursor at offset
\* 2, which is render column 5.
C15_Witness ==
  /\ E.pc = "running" /\ ev.key = END_KEY /\ E.cy = 0 /\ E.numrows = 1
  /\ Content(RowAt(E, 0)) = <<TAB, 97>> /\ E.cx = 2 /\ E.rx = 5


\* C16: no key event reads or writes a row at an index outside [0, numrows): with
\* the cursor parked one past the last row, delete-forward, backspace, End,
\* arrows and newline either create the row first or touch no row.
C16_NoRowOutOfRange ==
  [][\A y \in RowsDereferenced(E, ev'.key) : 0 <= y /\ y < E.numrows]_vars


\* C17: after every row operation each row's storage holds a zero byte at index
\* size, so the C string the regex matcher scans is exactly the row's content.
C17_RowsAreTerminated ==
  E.pc = "running" =>
    \A i \in 1..E.numrows :
      /\ E.row[i].size >= 0 /\ E.row[i].size < E.row[i].alloc
      /\ Peek(E.row[i], E.row[i].size) = NUL
      /\ CString(E.row[i], 0) = Content(E.row[i])


\* C18: during a regex substitution every byte read or written lies inside the
\* row's current allocation and the length of the tail that is moved is never
\* negative (the substitution does not fault even where every access outside an
\* allocation faults), and afterwards every row's size is >= 0.
C18_SubstitutionStaysInAllocation ==
  [][(ev'.key = CTRL_X /\ IsSubstitute(ev'.line))
       => LET strict == SubstituteCommand(editorPrompt(E), ev'.line, "crash")
          IN /\ strict.pc \notin {"crashed", "corrupt"}
             /\ \A i \in 1..strict.numrows : strict.row[i].size >= 0]_vars


\* C19: regex substitution terminates on every finite buffer for every pattern,
\* replacement and flag, including patterns that can match the empty string and
\* replacements that themselves match the pattern, and then reports the
\* replacement count.
C19_SubstitutionTerminates ==
  [][(/\ ev'.key = CTRL_X /\ IsSubstitute(ev'.line)
      /\ ParseSubstitute(ev'.line).has_repl
      /\ regcomp(ParseSubstitute(ev'.line).pat).ok)
       => /\ E'.pc # "hung"
          /\ (E'.pc = "running" => E'.statusmsg.text = "Replaced %d occurrences")]_vars


\* the editor after the keys Enter and Backspace
EnterThenBackspace(e) ==
  LET e1 == editorProcessKeypress(e, CR, <<>>, "none", "inplace")
  IN IF e1.pc = "running"
       THEN editorProcessKeypress(e1, BACKSPACE, <<>>, "none", "inplace")
       ELSE e1

\* C20: from every reachable editor state, pressing Enter and then Backspace
\* restores the sequence of row contents and the cursor (cy, cx), whether the
\* cursor was at column 0, inside a row, at the end of a row, or parked one past
\* the last row.
C20_EnterThenBackspaceRestores ==
  E.pc = "running" =>
    LET e2 == EnterThenBackspace(E)
    IN /\ e2.pc = "running"
       /\ Contents(e2.row) = Contents(E.row)
       /\ e2.cy = E.cy /\ e2.cx = E.cx

====
